---- MODULE Spec2Model ----
(***************************************************************************)
(* servo/components/style/parser.rs: the context within which CSS code is  *)
(* parsed (ParserContext and its constructors, the rule_type accessor,     *)
(* log_css_error) and the Parse implementation for Vec<T>.                 *)
(*                                                                         *)
(* Three specifications over the same variables:                           *)
(*   SpecCtx  one parse pass building its root context and deriving child  *)
(*            contexts, and calling the rule_type accessor;                *)
(*   SpecLog  two concurrent passes sharing one context and one reporter,  *)
(*            each calling log_css_error;                                  *)
(*   SpecVec  <Vec<T> as Parse>::parse on a token sequence.                *)
(*                                                                         *)
(* Option<X> is the set of at most one X: None is {}, Some(x) is {x}.      *)
(* u32 and u64 values are little-endian sequences of 16-bit limbs (2 and 4 *)
(* limbs), so that the widths of the source are kept.                      *)
(***************************************************************************)
EXTENDS Naturals, Sequences, FiniteSets

VARIABLES
    ctxs,             \* the ParserContext values built so far, in order
    built,            \* per context: the constructor call that built it
    acc,              \* the last call of the rule_type accessor
    overflow_checks,  \* whether the build panics on integer overflow
    pc,               \* per pass: position inside log_css_error
    frame,            \* per pass: arguments and local of the current call
    issued,           \* per pass: the log_css_error calls made, in order
    reports,          \* what the reporter has received, in order
    input,            \* the token sequence given to Vec<T>::parse
    separator,        \* <T as OneOrMoreSeparated>::S
    parsed            \* the outcome of Vec<T>::parse

vars == <<ctxs, built, acc, overflow_checks, pc, frame, issued, reports,
          input, separator, parsed>>

ctxVars == <<ctxs, built, acc>>
logVars == <<overflow_checks, pc, frame, issued, reports>>
vecVars == <<input, separator, parsed>>

---------------------------------------------------------------------------
(* Bounds of the model. *)

MaxCtx == 3       \* contexts built in one pass
MaxCalls == 3     \* log_css_error calls made by the two passes together
MaxLen == 5       \* tokens in the input of a sequence parse

---------------------------------------------------------------------------
(* Fixed-width integers as little-endian sequences of 16-bit limbs. *)

U32Bits == 32
U64Bits == 64
LimbBase == 2^16
MaxLimb == LimbBase - 1

U32Limbs == U32Bits \div 16
U64Limbs == U64Bits \div 16

\* 0u64, the offset the general constructor stores
Zero64 == [i \in 1..U64Limbs |-> 0]

RECURSIVE Carry(_, _, _)
\* the carry out of limb i when adding a and b (Len(a) = Len(b))
Carry(a, b, i) ==
    IF i = 0 THEN 0 ELSE (a[i] + b[i] + Carry(a, b, i - 1)) \div LimbBase

\* a + b in the mathematical integers: one limb more than the operands
ExactAdd(a, b) ==
    [i \in 1..(Len(a) + 1) |->
        IF i <= Len(a) THEN (a[i] + b[i] + Carry(a, b, i - 1)) % LimbBase
        ELSE Carry(a, b, Len(a))]

\* x widened with zero limbs to n limbs
ZeroExtend(x, n) == [i \in 1..n |-> IF i <= Len(x) THEN x[i] ELSE 0]

\* `x as u32` of a u64: the low 32 bits
AsU32(x) == SubSeq(x, 1, U32Limbs)

\* u32 + u32 overflows
Overflows32(a, b) == Carry(a, b, U32Limbs) = 1

\* u32 + u32 modulo 2^32
WrappingAdd32(a, b) == SubSeq(ExactAdd(a, b), 1, U32Limbs)

---------------------------------------------------------------------------
(* The ambient types, opaque here. *)

Origin == {"UserAgent", "User", "Author"}
UrlExtraData == {"url1", "url2"}
CssRuleType == {"Style", "Media"}
ParsingMode == {"PARSING_MODE_DEFAULT", "PARSING_MODE_ALLOW_UNITLESS_LENGTH"}
QuirksMode == {"Quirks", "NoQuirks"}
Namespaces == {"ns1", "ns2"}

OptionRuleType == {{}} \cup {{r} : r \in CssRuleType}

\* 0, 5, 2^32, 2^32 + 5
LineNumberOffsets ==
    {Zero64, <<5, 0, 0, 0>>, <<0, 0, 1, 0>>, <<5, 0, 1, 0>>}

---------------------------------------------------------------------------
(* ParserContext and its constructors. *)

ParserContext(o, u, rt, off, pm, qm, ns) ==
    [stylesheet_origin |-> o, url_data |-> u, rule_type |-> rt,
     line_number_offset |-> off, parsing_mode |-> pm, quirks_mode |-> qm,
     namespaces |-> ns]

\* mutant: the rule_type argument is dropped
New_NoRuleType(stylesheet_origin, url_data, rule_type, parsing_mode, quirks_mode) ==
    ParserContext(stylesheet_origin, url_data, {}, Zero64,
                  parsing_mode, quirks_mode, {})

New(stylesheet_origin, url_data, rule_type, parsing_mode, quirks_mode) ==
    ParserContext(stylesheet_origin, url_data, rule_type, Zero64,
                  parsing_mode, quirks_mode, {})

NewForCssom(url_data, rule_type, parsing_mode, quirks_mode) ==
    New("Author", url_data, rule_type, parsing_mode, quirks_mode)

\* mutant: the child starts again at line offset 0
NewWithRuleType_ZeroOffset(context, rule_type, namespaces) ==
    ParserContext(context.stylesheet_origin, context.url_data, {rule_type},
                  Zero64, context.parsing_mode,
                  context.quirks_mode, {namespaces})

\* mutant: the child keeps the parent's namespaces
NewWithRuleType_ParentNamespaces(context, rule_type, namespaces) ==
    ParserContext(context.stylesheet_origin, context.url_data, {rule_type},
                  context.line_number_offset, context.parsing_mode,
                  context.quirks_mode, context.namespaces)

NewWithRuleType(context, rule_type, namespaces) ==
    ParserContext(context.stylesheet_origin, context.url_data, {rule_type},
                  context.line_number_offset, context.parsing_mode,
                  context.quirks_mode, {namespaces})

\* mutant: the offset argument is dropped
NewWithLineNumberOffset_NoOffset(stylesheet_origin, url_data, line_number_offset, parsing_mode, quirks_mode) ==
    ParserContext(stylesheet_origin, url_data, {}, Zero64,
                  parsing_mode, quirks_mode, {})

NewWithLineNumberOffset(stylesheet_origin, url_data, line_number_offset, parsing_mode, quirks_mode) ==
    ParserContext(stylesheet_origin, url_data, {}, line_number_offset,
                  parsing_mode, quirks_mode, {})

\* mutant: a default rule type instead of the panic
RuleType_OrDefault(self) ==
    IF self.rule_type = {}
    THEN [outcome |-> "returned", value |-> {"Style"}]
    ELSE [outcome |-> "returned", value |-> self.rule_type]

\* self.rule_type.expect(..): the contained rule type, or a panic
RuleType(self) ==
    IF self.rule_type = {}
    THEN [outcome |-> "panicked", value |-> {}]
    ELSE [outcome |-> "returned", value |-> self.rule_type]

---------------------------------------------------------------------------
(* SpecCtx: one pass builds a root context, derives children, and calls    *)
(* the accessor.  The three root constructors take no context, so every    *)
(* context the program can build is the end of a chain from one root.      *)

\* the record of a constructor call: its name, its arguments and, for a
\* derivation, the parent's position and the parent's value at the call
Call(ctor, o, u, rt, off, pm, qm, ns, parent, parent_val) ==
    [ctor |-> ctor, stylesheet_origin |-> o, url_data |-> u, rule_type |-> rt,
     line_number_offset |-> off, parsing_mode |-> pm, quirks_mode |-> qm,
     namespaces |-> ns, parent |-> parent, parent_val |-> parent_val]

NoParent == ParserContext("Author", "url1", {}, Zero64, "PARSING_MODE_DEFAULT", "NoQuirks", {})

NoAcc == [on |-> 0, before |-> NoParent, outcome |-> "none", value |-> {}]

Running == acc.outcome # "panicked"

CallNew ==
    /\ Running /\ Len(ctxs) = 0
    /\ \E o \in Origin, u \in UrlExtraData, rt \in OptionRuleType,
          pm \in ParsingMode, qm \in QuirksMode :
        /\ ctxs' = Append(ctxs, New(o, u, rt, pm, qm))
        /\ built' = Append(built, Call("new", o, u, rt, Zero64, pm, qm, {}, 0, NoParent))
    /\ UNCHANGED <<acc, logVars, vecVars>>

CallNewForCssom ==
    /\ Running /\ Len(ctxs) = 0
    /\ \E u \in UrlExtraData, rt \in OptionRuleType,
          pm \in ParsingMode, qm \in QuirksMode :
        /\ ctxs' = Append(ctxs, NewForCssom(u, rt, pm, qm))
        /\ built' = Append(built, Call("new_for_cssom", "Author", u, rt, Zero64, pm, qm, {}, 0, NoParent))
    /\ UNCHANGED <<acc, logVars, vecVars>>

CallNewWithLineNumberOffset ==
    /\ Running /\ Len(ctxs) = 0
    /\ \E o \in Origin, u \in UrlExtraData, off \in LineNumberOffsets,
          pm \in ParsingMode, qm \in QuirksMode :
        /\ ctxs' = Append(ctxs, NewWithLineNumberOffset(o, u, off, pm, qm))
        /\ built' = Append(built, Call("new_with_line_number_offset", o, u, {}, off, pm, qm, {}, 0, NoParent))
    /\ UNCHANGED <<acc, logVars, vecVars>>

CallNewWithRuleType ==
    /\ Running /\ Len(ctxs) > 0 /\ Len(ctxs) < MaxCtx
    /\ \E p \in 1..Len(ctxs), r \in CssRuleType, n \in Namespaces :
        /\ ctxs' = Append(ctxs, NewWithRuleType(ctxs[p], r, n))
        /\ built' = Append(built,
              Call("new_with_rule_type", ctxs[p].stylesheet_origin, ctxs[p].url_data,
                   {r}, ctxs[p].line_number_offset, ctxs[p].parsing_mode,
                   ctxs[p].quirks_mode, {n}, p, ctxs[p]))
    /\ UNCHANGED <<acc, logVars, vecVars>>

CallRuleType ==
    /\ Running
    /\ \E i \in 1..Len(ctxs) :
        LET r == RuleType(ctxs[i]) IN
        acc' = [on |-> i, before |-> ctxs[i], outcome |-> r.outcome, value |-> r.value]
    /\ UNCHANGED <<ctxs, built, logVars, vecVars>>

CtxInit ==
    /\ ctxs = <<>> /\ built = <<>> /\ acc = NoAcc

---------------------------------------------------------------------------
(* log_css_error, in the steps a concurrent pass can observe: the location *)
(* is adjusted, the reporter is called, the call returns.                  *)

Passes == {1, 2}

\* 2^32 - 1
MaxU32 == [i \in 1..U32Limbs |-> MaxLimb]

SourceLocations ==
    {[line |-> <<2, 0>>, column |-> 3], [line |-> MaxU32, column |-> 7]}

ContextualParseError == {"e1", "e2"}

NoFrame == [location |-> [line |-> <<0, 0>>, column |-> 0], error |-> "e1",
            adjusted |-> [line |-> <<0, 0>>, column |-> 0]]

\* location.line + self.line_number_offset as u32 overflows the u32
LineOverflows(self, location) ==
    Overflows32(location.line, AsU32(self.line_number_offset))

\* SourceLocation { line: location.line + self.line_number_offset as u32,
\*                  column: location.column }
AdjustedLocation(self, location) ==
    [line |-> WrappingAdd32(location.line, AsU32(self.line_number_offset)),
     column |-> location.column]

\* mutant: the reporter's record is put in front of what it already holds
ReportError_Prepend(log, url_data, location, error, by, seq) ==
    <<[url_data |-> url_data, location |-> location, error |-> error,
       by |-> by, seq |-> seq]>> \o log

\* context.error_reporter.report_error(self.url_data, location, error);
\* by and seq name the calling pass and the number of its call
ReportError(log, url_data, location, error, by, seq) ==
    Append(log, [url_data |-> url_data, location |-> location, error |-> error,
                 by |-> by, seq |-> seq])

CallsMade == Len(issued[1]) + Len(issued[2])

\* a pass calls log_css_error and the adjusted location is computed
LogCssErrorEnter(p) ==
    /\ pc[p] = "idle" /\ CallsMade < MaxCalls
    /\ \E location \in SourceLocations, error \in ContextualParseError :
        /\ ~(overflow_checks /\ LineOverflows(ctxs[1], location))
        /\ issued' = [issued EXCEPT ![p] = Append(@, [location |-> location, error |-> error])]
        /\ frame' = [frame EXCEPT ![p] = [location |-> location, error |-> error,
                                          adjusted |-> AdjustedLocation(ctxs[1], location)]]
        /\ pc' = [pc EXCEPT ![p] = "adjusted"]
    /\ UNCHANGED <<ctxVars, overflow_checks, reports, vecVars>>

\* a pass calls log_css_error and the addition panics (overflow checks on)
LogCssErrorOverflow(p) ==
    /\ pc[p] = "idle" /\ CallsMade < MaxCalls
    /\ \E location \in SourceLocations, error \in ContextualParseError :
        /\ overflow_checks /\ LineOverflows(ctxs[1], location)
        /\ issued' = [issued EXCEPT ![p] = Append(@, [location |-> location, error |-> error])]
        /\ frame' = [frame EXCEPT ![p] = [location |-> location, error |-> error,
                                          adjusted |-> NoFrame.adjusted]]
        /\ pc' = [pc EXCEPT ![p] = "panicked"]
    /\ UNCHANGED <<ctxVars, overflow_checks, reports, vecVars>>

\* the reporter is called
LogCssErrorReport(p) ==
    /\ pc[p] = "adjusted"
    /\ reports' = ReportError(reports, ctxs[1].url_data, frame[p].adjusted,
                              frame[p].error, p, Len(issued[p]))
    /\ pc' = [pc EXCEPT ![p] = "reported"]
    /\ UNCHANGED <<ctxVars, overflow_checks, frame, issued, vecVars>>

\* log_css_error returns to its caller
LogCssErrorReturn(p) ==
    /\ pc[p] = "reported"
    /\ pc' = [pc EXCEPT ![p] = "idle"]
    /\ frame' = [frame EXCEPT ![p] = NoFrame]
    /\ UNCHANGED <<ctxVars, overflow_checks, issued, reports, vecVars>>

\* the contexts a logging pass may hold
LogContexts ==
    {NewWithLineNumberOffset("Author", u, off, "PARSING_MODE_DEFAULT", "NoQuirks") :
        u \in UrlExtraData, off \in LineNumberOffsets}
    \cup {NewWithRuleType(New("User", "url1", {}, "PARSING_MODE_DEFAULT", "Quirks"),
                          "Media", "ns1")}

LogIdle ==
    /\ pc = [p \in Passes |-> "idle"]
    /\ frame = [p \in Passes |-> NoFrame]
    /\ issued = [p \in Passes |-> <<>>]
    /\ reports = <<>>

---------------------------------------------------------------------------
(* <Vec<T> as Parse>::parse.  The input is a sequence of tokens; a token   *)
(* of Elements is a well-formed T, "!" is a malformed one, and the others  *)
(* are the separators.                                                     *)

Elements == {"1px", "2px"}
Separators == {"Comma", "Space", "Slash"}
Tokens == Elements \cup {"!", ",", " ", "/"}

SeparatorToken(S) ==
    IF S = "Comma" THEN "," ELSE IF S = "Space" THEN " " ELSE "/"

\* T::parse(context, input) at position pos: one well-formed element, or an error
TParse(context, inp, pos) ==
    IF pos <= Len(inp) /\ inp[pos] \in Elements
    THEN [ok |-> TRUE, value |-> [token |-> inp[pos], context |-> context], next |-> pos + 1]
    ELSE [ok |-> FALSE, value |-> [token |-> "!", context |-> context], next |-> pos]

RECURSIVE SeparatorLoop(_, _, _, _, _, _)
\* parse one T, then consume the separator; stop when none is found or the
\* input is exhausted.  calls records every T::parse call made
SeparatorLoop(S, inp, parse_one, pos, items, calls) ==
    LET r == TParse(parse_one, inp, pos)
        calls2 == Append(calls, [pos |-> pos, context |-> parse_one, ok |-> r.ok])
    IN  IF ~r.ok THEN [ok |-> FALSE, items |-> <<>>, calls |-> calls2]
        ELSE IF r.next > Len(inp)
             THEN [ok |-> TRUE, items |-> Append(items, r.value), calls |-> calls2]
        ELSE IF inp[r.next] = SeparatorToken(S)
             THEN SeparatorLoop(S, inp, parse_one, r.next + 1,
                                Append(items, r.value), calls2)
        ELSE [ok |-> FALSE, items |-> <<>>, calls |-> calls2]

\* S::parse(input, parse_one); parse_one is the closure, given by the
\* context it captured
SeparatorParse(S, inp, parse_one) ==
    SeparatorLoop(S, inp, parse_one, 1, <<>>, <<>>)

\* mutant: the elements are parsed with a context other than the one given
VecParse_OtherContext(context, inp, S) ==
    SeparatorParse(S, inp, NoParent)

\* mutant: an error becomes the empty sequence
VecParse_OrEmpty(context, inp, S) ==
    LET r == SeparatorParse(S, inp, context)
    IN  IF r.ok THEN r ELSE [ok |-> TRUE, items |-> <<>>, calls |-> r.calls]

\* <T as OneOrMoreSeparated>::S::parse(input, |i| T::parse(context, i))
VecParse(context, inp, S) ==
    SeparatorParse(S, inp, context)

NotParsed == [state |-> "pending", ok |-> FALSE, items |-> <<>>, calls |-> <<>>]

RECURSIVE SeqsUpTo(_, _)
\* the sequences over S of length at most n
SeqsUpTo(S, n) ==
    IF n = 0 THEN {<<>>}
    ELSE LET shorter == SeqsUpTo(S, n - 1)
         IN  shorter \cup {Append(s, t) : s \in shorter, t \in S}

ParseVec ==
    /\ parsed.state = "pending"
    /\ LET r == VecParse(ctxs[1], input, separator)
       IN  parsed' = [state |-> "done", ok |-> r.ok, items |-> r.items, calls |-> r.calls]
    /\ UNCHANGED <<ctxVars, logVars, input, separator>>

\* the contexts a sequence parse may be given
VecContexts ==
    {New("Author", "url1", {"Style"}, "PARSING_MODE_DEFAULT", "NoQuirks"),
     NewWithRuleType(New("User", "url2", {}, "PARSING_MODE_DEFAULT", "Quirks"),
                     "Media", "ns1")}

VecIdle ==
    /\ input = <<>> /\ separator = "Comma" /\ parsed = NotParsed

---------------------------------------------------------------------------
(* The specifications. *)

InitCtx ==
    /\ CtxInit
    /\ overflow_checks = FALSE /\ LogIdle
    /\ VecIdle

NextCtx ==
    \/ CallNew
    \/ CallNewForCssom
    \/ CallNewWithLineNumberOffset
    \/ CallNewWithRuleType
    \/ CallRuleType

SpecCtx == InitCtx /\ [][NextCtx]_vars

InitLog ==
    /\ \E c \in LogContexts :
        /\ ctxs = <<c>>
        /\ built = <<>>
    /\ acc = NoAcc
    /\ overflow_checks \in BOOLEAN
    /\ LogIdle
    /\ VecIdle

NextLog ==
    \E p \in Passes :
        \/ LogCssErrorEnter(p)
        \/ LogCssErrorOverflow(p)
        \/ LogCssErrorReport(p)
        \/ LogCssErrorReturn(p)

SpecLog == InitLog /\ [][NextLog]_vars

InitVec ==
    /\ \E c \in VecContexts :
        /\ ctxs = <<c>>
        /\ built = <<>>
    /\ acc = NoAcc
    /\ overflow_checks = FALSE /\ LogIdle
    /\ input \in SeqsUpTo(Tokens, MaxLen)
    /\ separator \in Separators
    /\ parsed = NotParsed

NextVec == ParseVec

SpecVec == InitVec /\ [][NextVec]_vars

---------------------------------------------------------------------------
(* Properties of the contexts (SpecCtx). *)

Built(i, ctor) == i \in 1..Len(ctxs) /\ built[i].ctor = ctor

\* the five fields a derivation copies
Ambient(c) ==
    <<c.stylesheet_origin, c.url_data, c.line_number_offset, c.parsing_mode,
      c.quirks_mode>>

\* C1: a context derived by new_with_rule_type(P, R, N) has rule type R
\* (the accessor returns exactly R), namespaces N, and P's origin, url data,
\* line offset, parsing mode and quirks mode; P is unchanged.
InvC1 ==
    \A i \in 1..Len(ctxs) :
        Built(i, "new_with_rule_type") =>
            /\ RuleType(ctxs[i]) = [outcome |-> "returned", value |-> built[i].rule_type]
            /\ ctxs[i].rule_type = built[i].rule_type
            /\ Cardinality(ctxs[i].rule_type) = 1
            /\ ctxs[i].namespaces = built[i].namespaces
            /\ Cardinality(ctxs[i].namespaces) = 1
            /\ Ambient(ctxs[i]) = Ambient(built[i].parent_val)
            /\ ctxs[built[i].parent] = built[i].parent_val
            /\ (acc.on = i => acc.outcome = "returned" /\ acc.value = built[i].rule_type)

\* a context derived from a derived context, with a line offset that is not
\* 0, on which the accessor has been called
WitC1 ==
    \E i \in 1..Len(ctxs) :
        /\ Built(i, "new_with_rule_type")
        /\ Built(built[i].parent, "new_with_rule_type")
        /\ ctxs[i].line_number_offset # Zero64
        /\ ctxs[i].rule_type # ctxs[built[i].parent].rule_type
        /\ acc.on = i

\* C2 as stated: every context built by new has no rule type, and the
\* accessor panics on it.
CexC2 ==
    \A i \in 1..Len(ctxs) :
        Built(i, "new") =>
            /\ ctxs[i].rule_type = {}
            /\ RuleType(ctxs[i]).outcome = "panicked"

\* C2 as amended: a context built by new carries the rule_type argument as
\* given (with line offset 0 and no namespaces); the accessor panics on it
\* exactly when the argument was None and returns R when it was Some(R).
InvC2 ==
    \A i \in 1..Len(ctxs) :
        Built(i, "new") =>
            /\ ctxs[i].rule_type = built[i].rule_type
            /\ ctxs[i].line_number_offset = Zero64
            /\ ctxs[i].namespaces = {}
            /\ (RuleType(ctxs[i]).outcome = "panicked") <=> (built[i].rule_type = {})
            /\ built[i].rule_type # {} =>
                 RuleType(ctxs[i]) = [outcome |-> "returned", value |-> built[i].rule_type]
            /\ acc.on = i =>
                 (acc.outcome = "panicked") <=> (built[i].rule_type = {})

\* new was given Some(R), and the accessor has returned on its context
WitC2 ==
    \E i \in 1..Len(ctxs) :
        /\ Built(i, "new")
        /\ built[i].rule_type # {}
        /\ acc.on = i /\ acc.outcome = "returned"

\* C4: rule_type() returns the contained rule type when the field is
\* Some(R) and panics when it is None (no default value, no error result);
\* the context is as it was before the call.
InvC4 ==
    acc.outcome # "none" =>
        LET c == ctxs[acc.on] IN
        /\ c = acc.before
        /\ c.rule_type # {} => acc.outcome = "returned" /\ acc.value = c.rule_type
        /\ c.rule_type = {} => acc.outcome = "panicked" /\ acc.value = {}
        /\ acc.outcome \in {"returned", "panicked"}

\* the accessor has panicked on a context without a rule type
WitC4 ==
    /\ acc.outcome = "panicked"
    /\ ctxs[acc.on].rule_type = {}

\* C5: a context built by new_with_line_number_offset has no rule type, no
\* namespaces, the offset given, and the other four fields as given.
InvC5 ==
    \A i \in 1..Len(ctxs) :
        Built(i, "new_with_line_number_offset") =>
            /\ ctxs[i].rule_type = {}
            /\ ctxs[i].namespaces = {}
            /\ ctxs[i].line_number_offset = built[i].line_number_offset
            /\ ctxs[i].stylesheet_origin = built[i].stylesheet_origin
            /\ ctxs[i].url_data = built[i].url_data
            /\ ctxs[i].parsing_mode = built[i].parsing_mode
            /\ ctxs[i].quirks_mode = built[i].quirks_mode

\* the inline constructor was given the offset 2^32 + 5
WitC5 ==
    \E i \in 1..Len(ctxs) :
        /\ Built(i, "new_with_line_number_offset")
        /\ built[i].line_number_offset = <<5, 0, 1, 0>>
        /\ built[i].stylesheet_origin = "User"

\* C6: namespaces is present exactly on the contexts produced by
\* new_with_rule_type; a context with namespaces has a rule type; contexts
\* from new and new_for_cssom have no namespaces and line offset 0.
InvC6 ==
    \A i \in 1..Len(ctxs) :
        /\ (ctxs[i].namespaces # {}) <=> Built(i, "new_with_rule_type")
        /\ ctxs[i].namespaces # {} => ctxs[i].rule_type # {}
        /\ built[i].ctor \in {"new", "new_for_cssom"} =>
             ctxs[i].namespaces = {} /\ ctxs[i].line_number_offset = Zero64

\* a root from new_for_cssom without a rule type, and a context derived from it
WitC6 ==
    /\ Built(1, "new_for_cssom")
    /\ ctxs[1].rule_type = {}
    /\ \E i \in 1..Len(ctxs) :
        Built(i, "new_with_rule_type") /\ built[i].parent = 1

---------------------------------------------------------------------------
(* Properties of log_css_error (SpecLog). *)

\* what the reporter received from pass p, in order
ReportsBy(p) == SelectSeq(reports, LAMBDA e : e.by = p)

\* the calls of pass p in which the reporter has been called
Reported(p) ==
    IF pc[p] \in {"idle", "reported"} THEN Len(issued[p]) ELSE Len(issued[p]) - 1

\* C3 as stated: the reporter receives line l + k, the sum in the integers
\* (neither truncated nor wrapped), the column c, the context's url data and
\* the error as given.
CexC3 ==
    \A p \in Passes :
        \A j \in 1..Len(ReportsBy(p)) :
            LET e == ReportsBy(p)[j]
                given == issued[p][j]
            IN  /\ ZeroExtend(e.location.line, U64Limbs + 1)
                     = ExactAdd(ZeroExtend(given.location.line, U64Limbs),
                                ctxs[1].line_number_offset)
                /\ e.location.column = given.location.column
                /\ e.url_data = ctxs[1].url_data
                /\ e.error = given.error

\* C7 as stated: every call of log_css_error returns normally, having
\* called the reporter exactly once.
CexC7 ==
    \A p \in Passes :
        /\ pc[p] # "panicked"
        /\ pc[p] = "idle" => Len(ReportsBy(p)) = Len(issued[p])

---------------------------------------------------------------------------
(* Properties of the sequence parse (SpecVec). *)

\* n >= 1 well-formed elements delimited by the separator of S
WellFormed(inp, S) ==
    /\ Len(inp) % 2 = 1
    /\ \A j \in 1..Len(inp) :
        IF j % 2 = 1 THEN inp[j] \in Elements ELSE inp[j] = SeparatorToken(S)

\* C8: on n >= 1 well-formed elements delimited by the separator, the parse
\* succeeds with exactly those n elements in input order, each parsed with
\* the context given to the sequence parse.
InvC8 ==
    (parsed.state = "done" /\ WellFormed(input, separator)) =>
        /\ parsed.ok
        /\ Len(parsed.items) = (Len(input) + 1) \div 2
        /\ \A j \in 1..Len(parsed.items) :
            /\ parsed.items[j].token = input[2 * j - 1]
            /\ parsed.items[j].context = ctxs[1]

\* three elements, not all the same, have been parsed
WitC8 ==
    /\ parsed.state = "done"
    /\ WellFormed(input, separator)
    /\ Len(input) = 5
    /\ input[1] # input[3]
    /\ Len(parsed.items) = 3

\* C9: the parse of an empty input fails; a success has at least one
\* element; when any T::parse call fails the result is an error, with no
\* elements.
InvC9 ==
    parsed.state = "done" =>
        /\ input = <<>> => ~parsed.ok
        /\ parsed.ok => Len(parsed.items) >= 1
        /\ (\E k \in 1..Len(parsed.calls) : ~parsed.calls[k].ok) => ~parsed.ok
        /\ ~parsed.ok => parsed.items = <<>>

\* the first element was parsed and T::parse failed on the second
WitC9 ==
    /\ parsed.state = "done"
    /\ Len(parsed.calls) = 2
    /\ parsed.calls[1].ok /\ ~parsed.calls[2].ok
    /\ ~parsed.ok

====
